---- MODULE Spec2Model ----
(***************************************************************************)
(* Model of the map family of geraintguan/ts-lib:                          *)
(*   Data/HashMap.ts        HashMap keyed by hash(key)                      *)
(*   Data/Map/HashMap.ts    HashMap keyed by serializeKey(key)              *)
(*   Data/Map/DefaultMap.ts DefaultMap that owns a Data/Map HashMap         *)
(*   Data/DefaultMap.ts     DefaultMap that owns a Data HashMap             *)
(* One object of one of the four classes is constructed in Init; every     *)
(* action is one call of a public method on it, and `last` records the     *)
(* call and how it completed.  A call that traverses the map runs to its   *)
(* end within one step.                                                    *)
(***************************************************************************)
EXTENDS Integers, Sequences, FiniteSets, TLC

MaxKey == 3

\* The longest entry list handed to fromEntries / fromCustomEntries.
MaxEntries == 3

\* Domain keys are the numbers 1..MaxKey.
Keys == 1..MaxKey

\* Values are numbers.  The code reads a value only through `!value`, so the
\* value type is represented by its two classes: 0, the falsy number, and 1,
\* a truthy one.
Values == {0, 1}

\* What Map.prototype.get yields for a key that has no entry.
undefined == 0 - 1

VARIABLES
  instance,      \* the class of the object under test
  hash,          \* Data/HashMap: the readonly field `hash`
  _map,          \* Data/HashMap: the ES6 Map `_map`, in insertion order
  serializeKey,  \* Data/Map/HashMap: the readonly field `serializeKey`
  internalMap,   \* Data/Map/HashMap: the ES6 Map `internalMap`
  defaultValue,  \* DefaultMap: the readonly field `defaultValue`
  name,          \* Data/HashMap: the readonly field `name`
  deserializeKey, \* Data/Map/HashMap: the readonly field `deserializeKey`
  last,          \* the last call and its completion
  args,          \* the entry list or the callback handed to the last call
  calls,         \* the invocations of that callback, in order
  returned,      \* the map object the last call returned
  yielded,       \* the sequence the iterator returned by the last call yields
  sameMap,       \* whether the ES6 Map of `returned` is the very Map object
                 \* that is the storage of the object under test
  traversal      \* the filter or map call that is running its loop, if any

vars == <<instance, hash, _map, serializeKey, internalMap, defaultValue, name,
          deserializeKey, last, args, calls, returned, yielded, sameMap,
          traversal>>

(***************************************************************************)
(* ES6 Map: a sequence of <<key, value>> pairs with distinct keys, in      *)
(* insertion order.                                                        *)
(***************************************************************************)
MapHas(m, k) == \E i \in 1..Len(m) : m[i][1] = k

MapIndex(m, k) == CHOOSE i \in 1..Len(m) : m[i][1] = k

MapGet(m, k) == IF MapHas(m, k) THEN m[MapIndex(m, k)][2] ELSE undefined

MapSet(m, k, v) ==
  IF MapHas(m, k)
    THEN [m EXCEPT ![MapIndex(m, k)] = <<k, v>>]
    ELSE Append(m, <<k, v>>)

MapDelete(m, k) == SelectSeq(m, LAMBDA e : e[1] # k)

MapClear(m) == <<>>

\* new Map(entries): the entries are set one after the other.
MapNew(entries) ==
  LET built[i \in 0..Len(entries)] ==
        IF i = 0 THEN <<>>
                 ELSE MapSet(built[i - 1], entries[i][1], entries[i][2])
  IN built[Len(entries)]

\* JavaScript `!value` for a number or undefined.
Not(value) == value = undefined \/ value = 0

(***************************************************************************)
(* Key transforms.                                                         *)
(***************************************************************************)
identity(key) == key

\* A caller-supplied onHash that sends two domain keys to one hashed key
\* (two instants of the same day).
dayOf(key) == (key + 1) \div 2

HashFns == { [key \in Keys |-> identity(key)], [key \in Keys |-> dayOf(key)] }

Digit == <<"0", "1", "2", "3", "4", "5", "6", "7", "8", "9">>

RECURSIVE JSONstringify(_)
JSONstringify(n) ==
  IF n < 10 THEN Digit[n + 1]
            ELSE JSONstringify(n \div 10) \o Digit[(n % 10) + 1]

SerializeFns == { [key \in Keys |-> JSONstringify(key)],
                  [key \in Keys |-> JSONstringify(dayOf(key))] }

\* JSON.parse of the decimal numeral of a number.
JSONparse(s) == CHOOSE n \in 0..(10 * MaxKey) : JSONstringify(n) = s

\* A caller-supplied deserializeKey for the day serializer: the first instant
\* of the day.
dayStart(s) == 2 * JSONparse(s) - 1

\* The deserializeKey that goes with a serializeKey: JSON.parse with
\* JSON.stringify (the defaults), dayStart with the day serializer.
DeserializeFn(serialize) ==
  [s \in { serialize[key] : key \in Keys } |->
     IF serialize = [key \in Keys |-> JSONstringify(key)]
       THEN JSONparse(s)
       ELSE dayStart(s)]

\* defaultValue callbacks: the constant 0, and one that depends on the key
\* (1 for odd keys, 0 for even ones).
Generators == { [key \in Keys |-> 0], [key \in Keys |-> key % 2] }

(***************************************************************************)
(* Callbacks handed to filter, map, mapKeys and mapValues.  Each is a pure *)
(* function of (value, key, index); the fourth argument, the original map, *)
(* is not read.                                                            *)
(***************************************************************************)
FilterFns == {"always", "byValue", "byKey", "byIndex"}

Predicate(fn, value, key, index) ==
  CASE fn = "always" -> TRUE
    [] fn = "byValue" -> value > 0
    [] fn = "byKey" -> key > 1
    [] fn = "byIndex" -> index % 2 = 0

\* map callbacks return a [key, value] pair.
PairFns == {"same", "constKey", "indexAsValue"}

PairOf(fn, value, key, index) ==
  CASE fn = "same" -> <<key, value>>
    [] fn = "constKey" -> <<1, value>>
    [] fn = "indexAsValue" -> <<key, index>>

\* mapKeys callbacks return a key: the day of the key, or the next key.
KeyFns == {"dayOf", "next"}

KeyOf(fn, key, value, index) ==
  CASE fn = "dayOf" -> dayOf(key)
    [] fn = "next" -> (key % MaxKey) + 1

\* mapValues callbacks return a value.
ValueFns == {"flip", "index"}

ValueFor(fn, value, key, index) ==
  CASE fn = "flip" -> 1 - value
    [] fn = "index" -> index

\* The arrow functions mapKeys and mapValues hand to map.
WrapKeys(fn) == [wraps |-> "mapKeys", fn |-> fn]

WrapValues(fn) == [wraps |-> "mapValues", fn |-> fn]

Direct(fn) == [wraps |-> "none", fn |-> fn]

\* One invocation of the callback handed to map.
Apply(f, value, key, index) ==
  CASE f.wraps = "none" -> PairOf(f.fn, value, key, index)
    [] f.wraps = "mapKeys" -> <<KeyOf(f.fn, key, value, index), value>>
    [] f.wraps = "mapValues" -> <<key, ValueFor(f.fn, value, key, index)>>

\* The result of a traversal with a callback: the storage of the traversed
\* map afterwards, the new map object, and the callback invocations
\* <<value, key, index, result>> in order.  The new map object is built
\* around a Map of its own (`new Map(entries)`, fromEntries), never around
\* the Map object of the traversed map.
Derived(m, object, invocations) ==
  [map |-> m, returned |-> object, calls |-> invocations, sameMap |-> FALSE]

(***************************************************************************)
(* Completions of a call.                                                  *)
(***************************************************************************)
NoError == [key |-> undefined, map |-> "none"]

\* HashMapMissingKeyError / MissingKeyError: the fields `map` and `key`.
HashMapMissingKeyError(map, key) == [key |-> key, map |-> map]

MissingKeyError(map, key) == [key |-> key, map |-> map]

\* A call returned: m is the storage afterwards, ret a returned value,
\* flag a returned boolean, invoked the number of defaultValue calls.
Return(m, ret, flag, invoked) ==
  [kind |-> "return", map |-> m, ret |-> ret, flag |-> flag,
   error |-> NoError, invoked |-> invoked]

Throw(m, error, invoked) ==
  [kind |-> "throw", map |-> m, ret |-> undefined, flag |-> FALSE,
   error |-> error, invoked |-> invoked]

\* The record of a call: the method, its key and its other argument, how it
\* completed, and afterDefault: whether the call before it was a get of the
\* same key that stored a default.
Call(op, key, arg, c, afterDefault) ==
  [op |-> op, key |-> key, arg |-> arg, kind |-> c.kind, ret |-> c.ret,
   flag |-> c.flag, error |-> c.error, invoked |-> c.invoked,
   afterDefault |-> afterDefault]

NoCall ==
  [op |-> "new", key |-> undefined, arg |-> undefined, kind |-> "return",
   ret |-> undefined, flag |-> FALSE, error |-> NoError, invoked |-> 0,
   afterDefault |-> FALSE]

(***************************************************************************)
(* Data/HashMap.ts: class HashMap<TKey, TValue, THashedKey>.  `self` is    *)
(* the object, m its `_map`.                                               *)
(***************************************************************************)
HashMap_hashKey(key) == hash[key]

\* new HashMap(hash, _map, name).
HashMap_new(h, m, n) ==
  [class |-> "Data/HashMap", hash |-> h, _map |-> m, name |-> n]

\* Mutant of HashMap_fromCustomEntries: the keys are stored unhashed.
HashMap_fromCustomEntries_unhashed(entries, onHash, n) ==
  HashMap_new(onHash,
              MapNew([i \in 1..Len(entries) |->
                        <<entries[i][1], entries[i][2]>>]),
              n)

HashMap_fromCustomEntries(entries, onHash, n) ==
  HashMap_new(onHash,
              MapNew([i \in 1..Len(entries) |->
                        <<onHash[entries[i][1]], entries[i][2]>>]),
              n)

HashMap_fromEntries(entries, n) ==
  HashMap_new([key \in Keys |-> identity(key)],
              MapNew([i \in 1..Len(entries) |->
                        <<entries[i][1], entries[i][2]>>]),
              n)

\* What the generator returned by entries() yields.
HashMap_entries(m) == [i \in 1..Len(m) |-> <<m[i][1], m[i][2]>>]

HashMap_keys(m) == [i \in 1..Len(m) |-> m[i][1]]

\* Mutant of HashMap_values: the values come last inserted first.
HashMap_values_reversed(m) == [i \in 1..Len(m) |-> m[Len(m) + 1 - i][2]]

HashMap_values(m) == [i \in 1..Len(m) |-> m[i][2]]

HashMap_iterator(m) == HashMap_entries(m)

\* Mutant of HashMap_filter: the name is not handed on, so that the new map
\* gets the constructor's default.
HashMap_filter_unnamed(m, fn) ==
  LET es == HashMap_entries(m)
      loop[i \in 0..Len(es)] ==
        IF i = 0 THEN [entries |-> <<>>, calls |-> <<>>]
        ELSE LET prev == loop[i - 1]
                 accepted == Predicate(fn, es[i][2], es[i][1], Len(prev.entries))
             IN [entries |-> IF accepted THEN Append(prev.entries, es[i])
                                         ELSE prev.entries,
                 calls |-> Append(prev.calls,
                                  <<es[i][2], es[i][1], Len(prev.entries), accepted>>)]
      done == loop[Len(es)]
  IN Derived(m, HashMap_new(hash, MapNew(done.entries), "unknown"), done.calls)

\* Mutant of HashMap_filter: new HashMap(this.hash, this._map, name), the
\* returned map is built around the Map object of the filtered map.
HashMap_filter_sameMap(m, fn) ==
  [map |-> m, returned |-> HashMap_new(hash, m, name), calls |-> <<>>,
   sameMap |-> TRUE]

\* Mutant of HashMap_filter: filters in place, the rejected entries leave
\* the map that is filtered.
HashMap_filter_inPlace(m, fn) ==
  LET es == HashMap_entries(m)
      kept == SelectSeq(es, LAMBDA e : Predicate(fn, e[2], e[1], 0))
  IN Derived(kept, HashMap_new(hash, kept, name),
             [i \in 1..Len(es) |->
                <<es[i][2], es[i][1], 0, Predicate(fn, es[i][2], es[i][1], 0)>>])

HashMap_filter(m, fn) ==
  LET es == HashMap_entries(m)
      loop[i \in 0..Len(es)] ==
        IF i = 0 THEN [entries |-> <<>>, calls |-> <<>>]
        ELSE LET prev == loop[i - 1]
                 entries == prev.entries
                 key == es[i][1]
                 value == es[i][2]
                 accepted == Predicate(fn, value, key, Len(entries))
             IN [entries |-> IF accepted THEN Append(entries, <<key, value>>)
                                         ELSE entries,
                 calls |-> Append(prev.calls,
                                  <<value, key, Len(entries), accepted>>)]
      done == loop[Len(es)]
  IN Derived(m, HashMap_new(hash, MapNew(done.entries), name), done.calls)

\* Mutant of HashMap_map: a pair whose key was returned before is dropped.
HashMap_map_firstWins(m, fn) ==
  LET es == HashMap_entries(m)
      loop[i \in 0..Len(es)] ==
        IF i = 0 THEN [entries |-> <<>>, calls |-> <<>>]
        ELSE LET prev == loop[i - 1]
                 pair == Apply(fn, es[i][2], es[i][1], i - 1)
             IN [entries |-> IF MapHas(prev.entries, pair[1])
                               THEN prev.entries
                               ELSE Append(prev.entries, pair),
                 calls |-> Append(prev.calls, <<es[i][2], es[i][1], i - 1, pair>>)]
      done == loop[Len(es)]
  IN Derived(m, HashMap_new(hash, done.entries, name), done.calls)

HashMap_map(m, fn) ==
  LET es == HashMap_entries(m)
      loop[i \in 0..Len(es)] ==
        IF i = 0 THEN [entries |-> <<>>, calls |-> <<>>]
        ELSE LET prev == loop[i - 1]
                 entries == prev.entries
                 key == es[i][1]
                 value == es[i][2]
                 pair == Apply(fn, value, key, Len(entries))
             IN [entries |-> Append(entries, pair),
                 calls |-> Append(prev.calls,
                                  <<value, key, Len(entries), pair>>)]
      done == loop[Len(es)]
  IN Derived(m, HashMap_new(hash, MapNew(done.entries), name), done.calls)

HashMap_mapKeys(m, fn) == HashMap_map(m, WrapKeys(fn))

\* Mutant of HashMap_mapValues: fn gets the key where it expects the value.
HashMap_mapValues_swapped(m, fn) ==
  LET es == HashMap_entries(m)
      pairs == [i \in 1..Len(es) |->
                  <<es[i][1], ValueFor(fn, es[i][1], es[i][2], i - 1)>>]
  IN Derived(m, HashMap_new(hash, MapNew(pairs), name),
             [i \in 1..Len(es) |-> <<es[i][2], es[i][1], i - 1, pairs[i]>>])

HashMap_mapValues(m, fn) == HashMap_map(m, WrapValues(fn))

HashMap_has(m, key) == MapHas(m, HashMap_hashKey(key))

\* Mutant of HashMap_get: the error carries the hashed key, not the key.
HashMap_get_errorKeyHashed(self, m, key) ==
  LET value == MapGet(m, HashMap_hashKey(key)) IN
    IF Not(value)
      THEN Throw(m, HashMapMissingKeyError(self, HashMap_hashKey(key)), 0)
      ELSE Return(m, value, FALSE, 0)

HashMap_get(self, m, key) ==
  LET value == MapGet(m, HashMap_hashKey(key)) IN
    IF Not(value)
      THEN Throw(m, HashMapMissingKeyError(self, key), 0)
      ELSE Return(m, value, FALSE, 0)

HashMap_getOr(m, key, fallback) ==
  LET value == MapGet(m, HashMap_hashKey(key)) IN
    IF Not(value)
      THEN Return(m, fallback, FALSE, 0)
      ELSE Return(m, value, FALSE, 0)

\* Mutant of HashMap_set: an entry that exists is removed and set anew, which
\* moves it behind the others.
HashMap_set_moveToEnd(m, key, value) ==
  Return(Append(MapDelete(m, HashMap_hashKey(key)), <<HashMap_hashKey(key), value>>),
         undefined, FALSE, 0)

HashMap_set(m, key, value) ==
  Return(MapSet(m, HashMap_hashKey(key), value), undefined, FALSE, 0)

\* Mutant of HashMap_delete: deletes under the key itself, not its hash.
HashMap_delete_unhashed(self, m, key) ==
  IF ~HashMap_has(m, key)
    THEN Throw(m, HashMapMissingKeyError(self, key), 0)
    ELSE Return(MapDelete(m, key), undefined, FALSE, 0)

HashMap_delete(self, m, key) ==
  IF ~HashMap_has(m, key)
    THEN Throw(m, HashMapMissingKeyError(self, key), 0)
    ELSE Return(MapDelete(m, hash[key]), undefined, FALSE, 0)

\* Mutant of HashMap_deleteIfExists: reports true without deleting.
HashMap_deleteIfExists_keeps(self, m, key) ==
  IF ~HashMap_has(m, key)
    THEN Return(m, undefined, FALSE, 0)
    ELSE Return(m, undefined, TRUE, 0)

HashMap_deleteIfExists(self, m, key) ==
  IF ~HashMap_has(m, key)
    THEN Return(m, undefined, FALSE, 0)
    ELSE LET d == HashMap_delete(self, m, key) IN
           IF d.kind = "throw" THEN d ELSE Return(d.map, undefined, TRUE, 0)

\* Mutant of HashMap_clear: the entries stay.
HashMap_clear_keeps(m) == Return(m, undefined, FALSE, 0)

HashMap_clear(m) == Return(MapClear(m), undefined, FALSE, 0)

(***************************************************************************)
(* Data/Map/HashMap.ts: class HashMap<TKey, TValue> implements BaseMap.    *)
(* `self` is the object, m its `internalMap`.                              *)
(***************************************************************************)
Map_HashMap_has(m, key) == MapHas(m, serializeKey[key])

\* new HashMap(internalMap, deserializeKey, serializeKey).
Map_HashMap_new(m, deserialize, serialize) ==
  [class |-> "Data/Map/HashMap", internalMap |-> m,
   deserializeKey |-> deserialize, serializeKey |-> serialize]

Map_HashMap_fromEntries(entries, deserialize, serialize) ==
  Map_HashMap_new(MapNew([i \in 1..Len(entries) |->
                            <<serialize[entries[i][1]], entries[i][2]>>]),
                  deserialize, serialize)

\* What the generator returned by entries() yields: deserialized keys.
Map_HashMap_entries(m) ==
  [i \in 1..Len(m) |-> <<deserializeKey[m[i][1]], m[i][2]>>]

\* Mutant of Map_HashMap_keys: the keys are yielded as they are stored.
Map_HashMap_keys_serialized(m) == [i \in 1..Len(m) |-> m[i][1]]

Map_HashMap_keys(m) == [i \in 1..Len(m) |-> deserializeKey[m[i][1]]]

Map_HashMap_values(m) == [i \in 1..Len(m) |-> m[i][2]]

Map_HashMap_iterator(m) == Map_HashMap_entries(m)

\* Mutant of Map_HashMap_serializedKeys: the last stored key comes first.
Map_HashMap_serializedKeys_reversed(m) ==
  [i \in 1..Len(m) |-> m[Len(m) + 1 - i][1]]

\* serializedKeys(): the keys of the internal ES6 Map, as they are stored.
Map_HashMap_serializedKeys(m) == [i \in 1..Len(m) |-> m[i][1]]

\* Mutant of Map_HashMap_filter: the index is the place of the entry.
Map_HashMap_filter_byPlace(m, fn) ==
  LET es == Map_HashMap_entries(m)
      loop[i \in 0..Len(es)] ==
        IF i = 0 THEN [entries |-> <<>>, calls |-> <<>>]
        ELSE LET prev == loop[i - 1]
                 accepted == Predicate(fn, es[i][2], es[i][1], i - 1)
             IN [entries |-> IF accepted THEN Append(prev.entries, es[i])
                                         ELSE prev.entries,
                 calls |-> Append(prev.calls,
                                  <<es[i][2], es[i][1], i - 1, accepted>>)]
      done == loop[Len(es)]
  IN Derived(m, Map_HashMap_fromEntries(done.entries, deserializeKey,
                                        serializeKey),
             done.calls)

Map_HashMap_filter(m, fn) ==
  LET es == Map_HashMap_entries(m)
      loop[i \in 0..Len(es)] ==
        IF i = 0 THEN [entries |-> <<>>, calls |-> <<>>]
        ELSE LET prev == loop[i - 1]
                 entries == prev.entries
                 key == es[i][1]
                 value == es[i][2]
                 accepted == Predicate(fn, value, key, Len(entries))
             IN [entries |-> IF accepted THEN Append(entries, <<key, value>>)
                                         ELSE entries,
                 calls |-> Append(prev.calls,
                                  <<value, key, Len(entries), accepted>>)]
      done == loop[Len(es)]
  IN Derived(m, Map_HashMap_fromEntries(done.entries, deserializeKey,
                                        serializeKey),
             done.calls)

Map_HashMap_map(m, fn) ==
  LET es == Map_HashMap_entries(m)
      loop[i \in 0..Len(es)] ==
        IF i = 0 THEN [entries |-> <<>>, calls |-> <<>>]
        ELSE LET prev == loop[i - 1]
                 entries == prev.entries
                 key == es[i][1]
                 value == es[i][2]
                 pair == Apply(fn, value, key, Len(entries))
             IN [entries |-> Append(entries, pair),
                 calls |-> Append(prev.calls,
                                  <<value, key, Len(entries), pair>>)]
      done == loop[Len(es)]
  IN Derived(m, Map_HashMap_fromEntries(done.entries, deserializeKey,
                                        serializeKey),
             done.calls)

Map_HashMap_mapKeys(m, fn) == Map_HashMap_map(m, WrapKeys(fn))

Map_HashMap_mapValues(m, fn) == Map_HashMap_map(m, WrapValues(fn))

Map_HashMap_get(self, m, key) ==
  LET value == MapGet(m, serializeKey[key]) IN
    IF Not(value)
      THEN Throw(m, MissingKeyError(self, key), 0)
      ELSE Return(m, value, FALSE, 0)

Map_HashMap_getOr(m, key, fallback) ==
  LET value == MapGet(m, serializeKey[key]) IN
    IF Not(value)
      THEN Return(m, fallback, FALSE, 0)
      ELSE Return(m, value, FALSE, 0)

Map_HashMap_set(m, key, value) ==
  Return(MapSet(m, serializeKey[key], value), undefined, FALSE, 0)

\* Mutant of Map_HashMap_delete: no has check, as Map.prototype.delete.
Map_HashMap_delete_unchecked(self, m, key) ==
  Return(MapDelete(m, serializeKey[key]), undefined, FALSE, 0)

Map_HashMap_delete(self, m, key) ==
  IF ~Map_HashMap_has(m, key)
    THEN Throw(m, MissingKeyError(self, key), 0)
    ELSE Return(MapDelete(m, serializeKey[key]), undefined, FALSE, 0)

Map_HashMap_deleteIfExists(self, m, key) ==
  IF ~Map_HashMap_has(m, key)
    THEN Return(m, undefined, FALSE, 0)
    ELSE LET d == Map_HashMap_delete(self, m, key) IN
           IF d.kind = "throw" THEN d ELSE Return(d.map, undefined, TRUE, 0)

Map_HashMap_clear(m) == Return(MapClear(m), undefined, FALSE, 0)

(***************************************************************************)
(* Data/Map/DefaultMap.ts: class DefaultMap<TKey, TValue>.  Its            *)
(* `internalMap` is a Data/Map HashMap; m is that HashMap's storage.       *)
(***************************************************************************)
InternalMapOf(self) == self \o ".internalMap"

Map_DefaultMap_has(m, key) == Map_HashMap_has(m, key)

\* new DefaultMap(new HashMap(internalMap, deserializeKey, serializeKey),
\* defaultValue): the name is left out.
Map_DefaultMap_fromEntries(entries, default, deserialize, serialize) ==
  [class |-> "Data/Map/DefaultMap",
   internalMap |-> Map_HashMap_fromEntries(entries, deserialize, serialize).internalMap,
   deserializeKey |-> deserialize, serializeKey |-> serialize,
   defaultValue |-> default]

Map_DefaultMap_entries(m) == Map_HashMap_entries(m)

Map_DefaultMap_keys(m) == Map_HashMap_keys(m)

Map_DefaultMap_values(m) == Map_HashMap_values(m)

Map_DefaultMap_iterator(m) == Map_DefaultMap_entries(m)

Map_DefaultMap_serializedKeys(m) == Map_HashMap_serializedKeys(m)

\* filter and the three maps keep their own `index`, one more per entry.
Map_DefaultMap_filter(m, fn) ==
  LET es == Map_HashMap_entries(m)
      loop[i \in 0..Len(es)] ==
        IF i = 0 THEN [entries |-> <<>>, calls |-> <<>>, index |-> 0]
        ELSE LET prev == loop[i - 1]
                 entries == prev.entries
                 index == prev.index
                 key == es[i][1]
                 value == es[i][2]
                 accepted == Predicate(fn, value, key, index)
             IN [entries |-> IF accepted THEN Append(entries, <<key, value>>)
                                         ELSE entries,
                 calls |-> Append(prev.calls,
                                  <<value, key, index, accepted>>),
                 index |-> index + 1]
      done == loop[Len(es)]
  IN Derived(m, Map_DefaultMap_fromEntries(done.entries, defaultValue,
                                           deserializeKey, serializeKey),
             done.calls)

Map_DefaultMap_map(m, fn) ==
  LET es == Map_HashMap_entries(m)
      loop[i \in 0..Len(es)] ==
        IF i = 0 THEN [entries |-> <<>>, calls |-> <<>>, index |-> 0]
        ELSE LET prev == loop[i - 1]
                 index == prev.index
                 key == es[i][1]
                 value == es[i][2]
                 pair == Apply(fn, value, key, index)
             IN [entries |-> Append(prev.entries, pair),
                 calls |-> Append(prev.calls,
                                  <<value, key, index, pair>>),
                 index |-> index + 1]
      done == loop[Len(es)]
  IN Derived(m, Map_DefaultMap_fromEntries(done.entries, defaultValue,
                                           deserializeKey, serializeKey),
             done.calls)

\* mapKeys and mapValues repeat the loop of map with the pair built in place.
Map_DefaultMap_mapKeys(m, fn) == Map_DefaultMap_map(m, WrapKeys(fn))

Map_DefaultMap_mapValues(m, fn) == Map_DefaultMap_map(m, WrapValues(fn))

Map_DefaultMap_set(m, key, value) == Map_HashMap_set(m, key, value)

Map_DefaultMap_get(self, m, key) ==
  IF ~Map_DefaultMap_has(m, key)
    THEN LET value == defaultValue.value[key] IN
           Return(Map_DefaultMap_set(m, key, value).map, value, FALSE, 1)
    ELSE Map_HashMap_get(InternalMapOf(self), m, key)

\* Mutant of Map_DefaultMap_getOr: a miss stores the default, as get does.
Map_DefaultMap_getOr_materializes(m, key, fallback) ==
  IF ~Map_DefaultMap_has(m, key)
    THEN Return(Map_DefaultMap_set(m, key, defaultValue.value[key]).map,
                fallback, FALSE, 1)
    ELSE Map_HashMap_getOr(m, key, fallback)

Map_DefaultMap_getOr(m, key, fallback) == Map_HashMap_getOr(m, key, fallback)

\* Mutant of Map_DefaultMap_delete: an absent key gets its default first.
Map_DefaultMap_delete_materializes(self, m, key) ==
  IF ~Map_DefaultMap_has(m, key)
    THEN Return(m, undefined, FALSE, 1)
    ELSE Map_HashMap_delete(InternalMapOf(self), m, key)

Map_DefaultMap_delete(self, m, key) ==
  Map_HashMap_delete(InternalMapOf(self), m, key)

Map_DefaultMap_deleteIfExists(self, m, key) ==
  Map_HashMap_deleteIfExists(InternalMapOf(self), m, key)

Map_DefaultMap_clear(m) == Map_HashMap_clear(m)

(***************************************************************************)
(* Data/DefaultMap.ts: class DefaultMap<TKey, TValue, THashedKey,          *)
(* TDefaultValue>.  Its `_map` is a Data HashMap; its only method is get,  *)
(* which evaluates the default before it calls getOr.                      *)
(***************************************************************************)
DefaultMap_get(m, key) ==
  LET c == HashMap_getOr(m, key, defaultValue.value[key]) IN
    [c EXCEPT !.invoked = IF defaultValue.type = "generator" THEN 1 ELSE 0]

(***************************************************************************)
(* The object under test and its construction.                             *)
(***************************************************************************)
Classes == {"Data/HashMap", "Data/Map/HashMap", "Data/Map/DefaultMap",
            "Data/DefaultMap"}

\* The classes whose storage is the variable _map.
Hashed == {"Data/HashMap", "Data/DefaultMap"}

NoDefault == [type |-> "none", value |-> [key \in Keys |-> undefined]]

\* The ES6 Map behind the object under test.
Storage == IF instance \in Hashed THEN _map ELSE internalMap

\* The `name` option of the Data/HashMap factories: a name other than the
\* constructor's default "unknown".
Names == {"users"}

EntryLists == UNION { [1..n -> Keys \X Values] : n \in 0..MaxEntries }

NoArgs == [entries |-> <<>>, fn |-> "none"]

NoObject == [class |-> "none"]

\* No filter or map call is running.
NoTraversal == [op |-> "none"]

\* The object under test is `object`, just built by the static method op
\* from the entry list `entries`.
Constructed(op, entries, object) ==
  /\ instance = object.class
  /\ hash = IF instance = "Data/HashMap"
              THEN object.hash ELSE [key \in Keys |-> identity(key)]
  /\ _map = IF instance = "Data/HashMap" THEN object._map ELSE <<>>
  /\ name = IF instance = "Data/HashMap" THEN object.name ELSE "undefined"
  /\ serializeKey = IF instance \in {"Data/Map/HashMap", "Data/Map/DefaultMap"}
                      THEN object.serializeKey
                      ELSE [key \in Keys |-> JSONstringify(key)]
  /\ deserializeKey = DeserializeFn(serializeKey)
  /\ internalMap = IF instance \in {"Data/Map/HashMap", "Data/Map/DefaultMap"}
                     THEN object.internalMap ELSE <<>>
  /\ defaultValue = IF instance = "Data/Map/DefaultMap"
                      THEN object.defaultValue ELSE NoDefault
  /\ last = [NoCall EXCEPT !.op = op]
  /\ args = [NoArgs EXCEPT !.entries = entries]
  /\ calls = <<>>
  /\ returned = NoObject
  /\ yielded = <<>>
  /\ sameMap = FALSE
  /\ traversal = NoTraversal

\* HashMap.empty({name}) and HashMap.emptyWithCustomHash({onHash, name}).
HashMap_empty ==
  \E onHash \in HashFns, n \in Names :
    Constructed("new", <<>>, HashMap_new(onHash, <<>>, n))

\* HashMap.fromEntries(entries, {name}) and
\* HashMap.fromCustomEntries(entries, {onHash, name}).
HashMap_from ==
  \E entries \in EntryLists, n \in Names :
    \/ Constructed("fromEntries", entries, HashMap_fromEntries(entries, n))
    \/ Constructed("fromCustomEntries", entries,
                   HashMap_fromCustomEntries(entries, [key \in Keys |-> dayOf(key)], n))

\* HashMap.empty({deserializeKey, serializeKey}) of Data/Map.
Map_HashMap_empty ==
  \E serialize \in SerializeFns :
    Constructed("new", <<>>,
                Map_HashMap_new(<<>>, DeserializeFn(serialize), serialize))

\* HashMap.fromEntries(entries, {deserializeKey, serializeKey}) of Data/Map.
Map_HashMap_from ==
  \E entries \in EntryLists, serialize \in SerializeFns :
    Constructed("fromEntries", entries,
                Map_HashMap_fromEntries(entries, DeserializeFn(serialize),
                                        serialize))

\* DefaultMap.empty(defaultValue) of Data/Map, which is
\* DefaultMap.fromEntries([], defaultValue): JSON.stringify serializes.
Map_DefaultMap_empty ==
  \E g \in Generators :
    Constructed("new", <<>>,
                Map_DefaultMap_fromEntries(
                  <<>>, [type |-> "generator", value |-> g],
                  DeserializeFn([key \in Keys |-> JSONstringify(key)]),
                  [key \in Keys |-> JSONstringify(key)]))

\* new DefaultMap(onHash, defaultValue) of Data: a constant or a generator.
DefaultMap_new ==
  /\ instance = "Data/DefaultMap"
  /\ hash \in HashFns
  /\ _map = <<>>
  /\ name = "unknown"
  /\ defaultValue \in
       { [type |-> "generator", value |-> g] : g \in Generators }
         \cup { [type |-> "value", value |-> [key \in Keys |-> c]] : c \in Values }
  /\ serializeKey = [key \in Keys |-> JSONstringify(key)]
  /\ deserializeKey = DeserializeFn(serializeKey)
  /\ internalMap = <<>>
  /\ last = NoCall
  /\ args = NoArgs
  /\ calls = <<>>
  /\ returned = NoObject
  /\ yielded = <<>>
  /\ sameMap = FALSE
  /\ traversal = NoTraversal

Init ==
  \/ HashMap_empty
  \/ HashMap_from
  \/ Map_HashMap_empty
  \/ Map_HashMap_from
  \/ Map_DefaultMap_empty
  \/ DefaultMap_new

\* What has(key) answers in the current state (for Data/DefaultMap, which has
\* no has method, what its private _map answers).
Has(key) ==
  CASE instance = "Data/HashMap" -> HashMap_has(_map, key)
    [] instance = "Data/Map/HashMap" -> Map_HashMap_has(internalMap, key)
    [] instance = "Data/Map/DefaultMap" -> Map_DefaultMap_has(internalMap, key)
    [] instance = "Data/DefaultMap" -> HashMap_has(_map, key)

(***************************************************************************)
(* One call of a public method on the object under test.  The call is      *)
(* dispatched on the object's class; c is its completion.                  *)
(***************************************************************************)
Completed(op, key, arg, c, a, d, y) ==
  /\ last' = Call(op, key, arg, c,
                   /\ last.op = "get" /\ last.invoked > 0 /\ last.key = key
                   /\ instance = "Data/Map/DefaultMap")
  /\ IF instance \in Hashed
       THEN _map' = c.map /\ UNCHANGED internalMap
       ELSE internalMap' = c.map /\ UNCHANGED _map
  /\ args' = a
  /\ calls' = d.calls
  /\ returned' = d.returned
  /\ yielded' = y
  /\ sameMap' = d.sameMap
  /\ traversal' = NoTraversal
  /\ UNCHANGED <<instance, hash, serializeKey, defaultValue, name,
                 deserializeKey>>

\* A call that takes no entry list and no callback, returns no map and no
\* iterator.
Complete(op, key, arg, c) ==
  Completed(op, key, arg, c, NoArgs, Derived(c.map, NoObject, <<>>), <<>>)

get(key) ==
  /\ instance \in Classes
  /\ Complete("get", key, undefined,
       CASE instance = "Data/HashMap" -> HashMap_get(instance, _map, key)
         [] instance = "Data/Map/HashMap" -> Map_HashMap_get(instance, internalMap, key)
         [] instance = "Data/Map/DefaultMap" ->
              Map_DefaultMap_get(instance, internalMap, key)
         [] instance = "Data/DefaultMap" -> DefaultMap_get(_map, key))

getOr(key, fallback) ==
  /\ instance # "Data/DefaultMap"
  /\ Complete("getOr", key, fallback,
       CASE instance = "Data/HashMap" -> HashMap_getOr(_map, key, fallback)
         [] instance = "Data/Map/HashMap" -> Map_HashMap_getOr(internalMap, key, fallback)
         [] instance = "Data/Map/DefaultMap" -> Map_DefaultMap_getOr(internalMap, key, fallback))

has(key) ==
  /\ instance # "Data/DefaultMap"
  /\ Complete("has", key, undefined, Return(Storage, undefined, Has(key), 0))

set(key, value) ==
  /\ instance # "Data/DefaultMap"
  /\ Complete("set", key, value,
       CASE instance = "Data/HashMap" -> HashMap_set(_map, key, value)
         [] instance = "Data/Map/HashMap" -> Map_HashMap_set(internalMap, key, value)
         [] instance = "Data/Map/DefaultMap" -> Map_DefaultMap_set(internalMap, key, value))

delete(key) ==
  /\ instance # "Data/DefaultMap"
  /\ Complete("delete", key, undefined,
       CASE instance = "Data/HashMap" -> HashMap_delete(instance, _map, key)
         [] instance = "Data/Map/HashMap" -> Map_HashMap_delete(instance, internalMap, key)
         [] instance = "Data/Map/DefaultMap" ->
              Map_DefaultMap_delete(instance, internalMap, key))

deleteIfExists(key) ==
  /\ instance # "Data/DefaultMap"
  /\ Complete("deleteIfExists", key, undefined,
       CASE instance = "Data/HashMap" -> HashMap_deleteIfExists(instance, _map, key)
         [] instance = "Data/Map/HashMap" ->
              Map_HashMap_deleteIfExists(instance, internalMap, key)
         [] instance = "Data/Map/DefaultMap" ->
              Map_DefaultMap_deleteIfExists(instance, internalMap, key))

clear ==
  /\ instance # "Data/DefaultMap"
  /\ Complete("clear", undefined, undefined,
       CASE instance = "Data/HashMap" -> HashMap_clear(_map)
         [] instance = "Data/Map/HashMap" -> Map_HashMap_clear(internalMap)
         [] instance = "Data/Map/DefaultMap" -> Map_DefaultMap_clear(internalMap))

\* A call of filter, map, mapKeys or mapValues with callback fn; d is what
\* the class's method does.
Derive(op, fn, d) ==
  Completed(op, undefined, undefined, Return(d.map, undefined, FALSE, 0),
            [NoArgs EXCEPT !.fn = fn], d, <<>>)

filter(fn) ==
  /\ instance # "Data/DefaultMap"
  /\ Derive("filter", fn,
       CASE instance = "Data/HashMap" -> HashMap_filter(_map, fn)
         [] instance = "Data/Map/HashMap" -> Map_HashMap_filter(internalMap, fn)
         [] instance = "Data/Map/DefaultMap" ->
              Map_DefaultMap_filter(internalMap, fn))

map(fn) ==
  /\ instance # "Data/DefaultMap"
  /\ Derive("map", fn,
       CASE instance = "Data/HashMap" -> HashMap_map(_map, Direct(fn))
         [] instance = "Data/Map/HashMap" ->
              Map_HashMap_map(internalMap, Direct(fn))
         [] instance = "Data/Map/DefaultMap" ->
              Map_DefaultMap_map(internalMap, Direct(fn)))

mapKeys(fn) ==
  /\ instance # "Data/DefaultMap"
  /\ Derive("mapKeys", fn,
       CASE instance = "Data/HashMap" -> HashMap_mapKeys(_map, fn)
         [] instance = "Data/Map/HashMap" -> Map_HashMap_mapKeys(internalMap, fn)
         [] instance = "Data/Map/DefaultMap" ->
              Map_DefaultMap_mapKeys(internalMap, fn))

mapValues(fn) ==
  /\ instance # "Data/DefaultMap"
  /\ Derive("mapValues", fn,
       CASE instance = "Data/HashMap" -> HashMap_mapValues(_map, fn)
         [] instance = "Data/Map/HashMap" ->
              Map_HashMap_mapValues(internalMap, fn)
         [] instance = "Data/Map/DefaultMap" ->
              Map_DefaultMap_mapValues(internalMap, fn))

\* A call of entries, keys, values or [Symbol.iterator] whose iterator is
\* then run to its end ([...map.entries()], [...map]); y is what it yields.
Traverse(op, y) ==
  Completed(op, undefined, undefined, Return(Storage, undefined, FALSE, 0),
            NoArgs, Derived(Storage, NoObject, <<>>), y)

entries ==
  /\ instance # "Data/DefaultMap"
  /\ Traverse("entries",
       CASE instance = "Data/HashMap" -> HashMap_entries(_map)
         [] instance = "Data/Map/HashMap" -> Map_HashMap_entries(internalMap)
         [] instance = "Data/Map/DefaultMap" ->
              Map_DefaultMap_entries(internalMap))

keys ==
  /\ instance # "Data/DefaultMap"
  /\ Traverse("keys",
       CASE instance = "Data/HashMap" -> HashMap_keys(_map)
         [] instance = "Data/Map/HashMap" -> Map_HashMap_keys(internalMap)
         [] instance = "Data/Map/DefaultMap" -> Map_DefaultMap_keys(internalMap))

values ==
  /\ instance # "Data/DefaultMap"
  /\ Traverse("values",
       CASE instance = "Data/HashMap" -> HashMap_values(_map)
         [] instance = "Data/Map/HashMap" -> Map_HashMap_values(internalMap)
         [] instance = "Data/Map/DefaultMap" ->
              Map_DefaultMap_values(internalMap))

iterator ==
  /\ instance # "Data/DefaultMap"
  /\ Traverse("iterator",
       CASE instance = "Data/HashMap" -> HashMap_iterator(_map)
         [] instance = "Data/Map/HashMap" -> Map_HashMap_iterator(internalMap)
         [] instance = "Data/Map/DefaultMap" ->
              Map_DefaultMap_iterator(internalMap))

\* serializedKeys() of a serializing map, its iterator run to its end.
serializedKeys ==
  /\ instance \notin Hashed
  /\ Traverse("serializedKeys",
       CASE instance = "Data/Map/HashMap" ->
              Map_HashMap_serializedKeys(internalMap)
         [] instance = "Data/Map/DefaultMap" ->
              Map_DefaultMap_serializedKeys(internalMap))

Next ==
  \/ \E key \in Keys : get(key)
  \/ \E key \in Keys, fallback \in Values : getOr(key, fallback)
  \/ \E key \in Keys : has(key)
  \/ \E key \in Keys, value \in Values : set(key, value)
  \/ \E key \in Keys : delete(key)
  \/ \E key \in Keys : deleteIfExists(key)
  \/ clear
  \/ \E fn \in FilterFns : filter(fn)
  \/ \E fn \in PairFns : map(fn)
  \/ \E fn \in KeyFns : mapKeys(fn)
  \/ \E fn \in ValueFns : mapValues(fn)
  \/ entries
  \/ keys
  \/ values
  \/ iterator
  \/ serializedKeys

Spec == Init /\ [][Next]_vars

(***************************************************************************)
(* Vocabulary of the properties.                                           *)
(***************************************************************************)
\* The transformed key of a domain key: its hashed or serialized form.
TransformOf(key) == IF instance \in Hashed THEN hash[key] ELSE serializeKey[key]

\* The storage holds an entry for the transformed key of `key`.
HasEntry(key) == \E i \in 1..Len(Storage) : Storage[i][1] = TransformOf(key)

\* The value of that entry.
ValueOf(key) ==
  Storage[CHOOSE i \in 1..Len(Storage) : Storage[i][1] = TransformOf(key)][2]

\* `after` is `before` without its entry for `key`: every other entry is kept,
\* with its value and in the same relative order.
Removed(before, after, key) ==
  \E i \in 1..Len(before) :
    /\ before[i][1] = TransformOf(key)
    /\ after = SubSeq(before, 1, i - 1) \o SubSeq(before, i + 1, Len(before))

HashMaps == {"Data/HashMap", "Data/Map/HashMap"}

DefaultMaps == {"Data/Map/DefaultMap", "Data/DefaultMap"}

\* The step is a call of method op with the given key.
Called(op, key) == last'.op = op /\ last'.key = key

\* [...map]: what the iterator of the object under test yields.
Spread ==
  CASE instance = "Data/HashMap" -> HashMap_iterator(_map)
    [] instance = "Data/Map/HashMap" -> Map_HashMap_iterator(internalMap)
    [] instance = "Data/Map/DefaultMap" -> Map_DefaultMap_iterator(internalMap)
    [] instance = "Data/DefaultMap" -> HashMap_iterator(_map)

\* [...map.entries()] of the object under test.
SpreadEntries ==
  CASE instance = "Data/HashMap" -> HashMap_entries(_map)
    [] instance = "Data/Map/HashMap" -> Map_HashMap_entries(internalMap)
    [] instance = "Data/Map/DefaultMap" -> Map_DefaultMap_entries(internalMap)
    [] instance = "Data/DefaultMap" -> HashMap_entries(_map)

\* [...map.keys()] of the object under test.
SpreadKeys ==
  CASE instance = "Data/HashMap" -> HashMap_keys(_map)
    [] instance = "Data/Map/HashMap" -> Map_HashMap_keys(internalMap)
    [] instance = "Data/Map/DefaultMap" -> Map_DefaultMap_keys(internalMap)
    [] instance = "Data/DefaultMap" -> HashMap_keys(_map)

\* JavaScript `===` of two keys, each a number or a string: a number and a
\* string are never the same value.
SameValue(a, b) == ToString(a) = ToString(b)

Traversals == {"entries", "keys", "values", "iterator"}

\* The storage of a map object that a call returned.
StorageOf(object) ==
  IF object.class = "Data/HashMap" THEN object._map ELSE object.internalMap

Derivations == {"filter", "map", "mapKeys", "mapValues"}

\* [...returned]: what the iterator of the map a call returned yields.
SpreadOf(object) ==
  LET m == StorageOf(object) IN
    IF object.class = "Data/HashMap"
      THEN [i \in 1..Len(m) |-> <<m[i][1], m[i][2]>>]
      ELSE [i \in 1..Len(m) |-> <<object.deserializeKey[m[i][1]], m[i][2]>>]

\* The callback of the last call was invoked once per entry of the map, in
\* iteration order, with the entry's value and key.
CalledPerEntry ==
  /\ Len(calls) = Len(Spread)
  /\ \A i \in 1..Len(calls) :
       calls[i][1] = Spread[i][2] /\ calls[i][2] = Spread[i][1]

\* How many of the first i - 1 invocations of the predicate returned true.
AcceptedBefore(i) == Cardinality({ j \in 1..(i - 1) : calls[j][4] })

\* The entries of sequence es at the places in the set `places`, in order.
RECURSIVE At(_, _)
At(es, places) ==
  IF es = <<>> THEN <<>>
  ELSE At(SubSeq(es, 1, Len(es) - 1), places)
         \o (IF Len(es) \in places THEN <<es[Len(es)]>> ELSE <<>>)

\* What a list ps of <<key, value>> pairs comes to when pairs with one key
\* are one entry, at the place of the first of them and with the value of
\* the last of them.
Collapse(ps) ==
  LET firsts == { i \in 1..Len(ps) : \A j \in 1..(i - 1) : ps[j][1] # ps[i][1] }
      lastOf(i) == CHOOSE j \in 1..Len(ps) :
                     /\ ps[j][1] = ps[i][1]
                     /\ \A l \in (j + 1)..Len(ps) : ps[l][1] # ps[i][1]
  IN At([i \in 1..Len(ps) |-> <<ps[i][1], ps[lastOf(i)][2]>>], firsts)

\* The key under which the object under test stores a key that a map
\* callback returned: as it is (Data/HashMap) or serialized.
StoredAs(key) == IF instance \in Hashed THEN key ELSE serializeKey[key]

(***************************************************************************)
(* The map that filter, map, mapKeys or mapValues returned is kept, and    *)
(* the call after the derivation is a set, delete or clear on one of the   *)
(* two objects: `this`, the object under test, or `returned`.  The other   *)
(* object changes with it exactly if both are built around one Map object. *)
(***************************************************************************)
Targets == {"this", "returned"}

\* The map object with m as the content of its ES6 Map.
WithStorage(object, m) ==
  IF object.class = "Data/HashMap"
    THEN [object EXCEPT !._map = m]
    ELSE [object EXCEPT !.internalMap = m]

\* The content of the ES6 Map of the target.
StorageAt(target) == IF target = "this" THEN Storage ELSE StorageOf(returned)

\* The name under which a call on the target is recorded.
OpAt(target, op) == IF target = "this" THEN op ELSE "returned." \o op

\* A call of op on the target right after a derivation; c is its completion.
CallAt(target, op, key, arg, c) ==
  /\ last' = Call(OpAt(target, op), key, arg, c, FALSE)
  /\ IF instance \in Hashed
       THEN /\ _map' = IF target = "this" \/ sameMap THEN c.map ELSE _map
            /\ UNCHANGED internalMap
       ELSE /\ internalMap' = IF target = "this" \/ sameMap
                                THEN c.map ELSE internalMap
            /\ UNCHANGED _map
  /\ returned' = IF target = "returned" \/ sameMap
                   THEN WithStorage(returned, c.map) ELSE returned
  /\ args' = NoArgs
  /\ calls' = <<>>
  /\ yielded' = <<>>
  /\ UNCHANGED <<instance, hash, serializeKey, defaultValue, name,
                 deserializeKey, sameMap, traversal>>

laterSet(target, key, value) ==
  /\ last.op \in Derivations
  /\ CallAt(target, "set", key, value,
       CASE instance = "Data/HashMap" ->
              HashMap_set(StorageAt(target), key, value)
         [] instance = "Data/Map/HashMap" ->
              Map_HashMap_set(StorageAt(target), key, value)
         [] instance = "Data/Map/DefaultMap" ->
              Map_DefaultMap_set(StorageAt(target), key, value))

laterDelete(target, key) ==
  /\ last.op \in Derivations
  /\ CallAt(target, "delete", key, undefined,
       CASE instance = "Data/HashMap" ->
              HashMap_delete(instance, StorageAt(target), key)
         [] instance = "Data/Map/HashMap" ->
              Map_HashMap_delete(instance, StorageAt(target), key)
         [] instance = "Data/Map/DefaultMap" ->
              Map_DefaultMap_delete(instance, StorageAt(target), key))

laterClear(target) ==
  /\ last.op \in Derivations
  /\ CallAt(target, "clear", undefined, undefined,
       CASE instance = "Data/HashMap" -> HashMap_clear(StorageAt(target))
         [] instance = "Data/Map/HashMap" ->
              Map_HashMap_clear(StorageAt(target))
         [] instance = "Data/Map/DefaultMap" ->
              Map_DefaultMap_clear(StorageAt(target)))

\* The last call was a set, delete or clear right after a derivation.
Later ==
  /\ returned # NoObject
  /\ last.op \in { OpAt(target, op) : target \in Targets,
                                       op \in {"set", "delete", "clear"} }

\* A map is built from a list of entries (Init) and by set, and maps are
\* derived from it, until a set, delete or clear on it or on the map derived
\* last while that map is kept.
NextDerived ==
  \/ \E key \in Keys, value \in Values :
       ~Later /\ set(key, value)
  \/ \E fn \in FilterFns : ~Later /\ filter(fn)
  \/ \E fn \in PairFns : ~Later /\ map(fn)
  \/ \E fn \in KeyFns : ~Later /\ mapKeys(fn)
  \/ \E fn \in ValueFns : ~Later /\ mapValues(fn)
  \/ \E target \in Targets, key \in Keys, value \in Values :
       laterSet(target, key, value)
  \/ \E target \in Targets, key \in Keys : laterDelete(target, key)
  \/ \E target \in Targets : laterClear(target)

SpecDerived == Init /\ [][NextDerived]_vars

(***************************************************************************)
(* filter and map with a callback that calls methods of `original`.  The   *)
(* loop `for (const [key, value] of this.entries())` runs over the live    *)
(* iterator of the ES6 Map: one step is one turn of the loop, the callback *)
(* and its calls on the map included.  The iterator's position is `cursor`,*)
(* the number of entries of the Map that lie before it: an entry that is   *)
(* deleted before the cursor moves the cursor back, clear() moves it to    *)
(* the start, and an entry that is set anew lies at the end.               *)
(***************************************************************************)
MaxCalls == 5

MutatingFns == {"pure", "clear", "setNext", "deleteNext", "reinsert"}

\* The key after `key`, the last key being followed by the first.
Succ(key) == (key % MaxKey) + 1

\* original.set(key, value) while the iterator is at t.cursor of t.map.
AfterSet(t, key, value) ==
  [map |-> (CASE instance = "Data/HashMap" -> HashMap_set(t.map, key, value)
              [] instance = "Data/Map/HashMap" ->
                   Map_HashMap_set(t.map, key, value)
              [] instance = "Data/Map/DefaultMap" ->
                   Map_DefaultMap_set(t.map, key, value)).map,
   cursor |-> t.cursor]

\* original.deleteIfExists(key) while the iterator is at t.cursor of t.map.
AfterDeleteIfExists(t, key) ==
  [map |-> (CASE instance = "Data/HashMap" ->
                   HashMap_deleteIfExists(instance, t.map, key)
              [] instance = "Data/Map/HashMap" ->
                   Map_HashMap_deleteIfExists(instance, t.map, key)
              [] instance = "Data/Map/DefaultMap" ->
                   Map_DefaultMap_deleteIfExists(instance, t.map, key)).map,
   cursor |-> IF /\ MapHas(t.map, TransformOf(key))
                 /\ MapIndex(t.map, TransformOf(key)) <= t.cursor
                THEN t.cursor - 1 ELSE t.cursor]

\* original.clear() while the iterator is at t.cursor of t.map.
AfterClear(t) ==
  [map |-> (CASE instance = "Data/HashMap" -> HashMap_clear(t.map)
              [] instance = "Data/Map/HashMap" -> Map_HashMap_clear(t.map)
              [] instance = "Data/Map/DefaultMap" ->
                   Map_DefaultMap_clear(t.map)).map,
   cursor |-> 0]

\* What callback fn does to the map when it is called with value and key.
Mutation(fn, t, value, key) ==
  CASE fn = "pure" -> t
    [] fn = "clear" -> AfterClear(t)
    [] fn = "setNext" -> AfterSet(t, Succ(key), value)
    [] fn = "deleteNext" -> AfterDeleteIfExists(t, Succ(key))
    [] fn = "reinsert" -> AfterSet(AfterDeleteIfExists(t, key), key, value)

\* The call is running: its loop has not ended.
Running(m) == [Return(m, undefined, FALSE, 0) EXCEPT !.kind = "running"]

\* The map that filter or map builds from the collected entries.
Built(pairs) ==
  CASE instance = "Data/HashMap" -> HashMap_new(hash, MapNew(pairs), name)
    [] instance = "Data/Map/HashMap" ->
         Map_HashMap_fromEntries(pairs, deserializeKey, serializeKey)
    [] instance = "Data/Map/DefaultMap" ->
         Map_DefaultMap_fromEntries(pairs, defaultValue, deserializeKey,
                                    serializeKey)

\* filter(fn) or map(fn) is called: `const entries = []` and the iterator.
begin(op, fn) ==
  /\ instance # "Data/DefaultMap"
  /\ traversal = NoTraversal
  /\ last' = Call(op, undefined, undefined, Running(Storage), FALSE)
  /\ traversal' = [op |-> op, start |-> Storage, cursor |-> 0, entries |-> <<>>]
  /\ args' = [NoArgs EXCEPT !.fn = fn]
  /\ calls' = <<>>
  /\ returned' = NoObject
  /\ yielded' = <<>>
  /\ UNCHANGED <<instance, hash, _map, serializeKey, internalMap,
                 defaultValue, name, deserializeKey, sameMap>>

\* One turn of the loop: the iterator yields the entry at the cursor and
\* moves on, the callback is called with it, and what it returns is pushed.
turn ==
  /\ traversal # NoTraversal
  /\ traversal.cursor < Len(Storage)
  /\ Len(calls) < MaxCalls
  /\ LET e == Storage[traversal.cursor + 1]
         key == IF instance \in Hashed THEN e[1] ELSE deserializeKey[e[1]]
         value == e[2]
         index == IF instance = "Data/Map/DefaultMap"
                    THEN Len(calls) ELSE Len(traversal.entries)
         t == Mutation(args.fn,
                       [map |-> Storage, cursor |-> traversal.cursor + 1],
                       value, key)
     IN /\ IF instance \in Hashed
             THEN _map' = t.map /\ UNCHANGED internalMap
             ELSE internalMap' = t.map /\ UNCHANGED _map
        /\ traversal' = [traversal EXCEPT
                           !.cursor = t.cursor,
                           !.entries = Append(@, <<key, value>>)]
        /\ calls' = Append(calls,
                           <<value, key, index,
                             IF traversal.op = "filter"
                               THEN <<TRUE>> ELSE <<key, value>> >>)
  /\ UNCHANGED <<instance, hash, serializeKey, defaultValue, name,
                 deserializeKey, last, args, returned, yielded, sameMap>>

\* The iterator is done: the call returns the map built from the entries.
end ==
  /\ traversal # NoTraversal
  /\ traversal.cursor >= Len(Storage)
  /\ last' = [last EXCEPT !.kind = "return"]
  /\ returned' = Built(traversal.entries)
  /\ traversal' = NoTraversal
  /\ UNCHANGED <<instance, hash, _map, serializeKey, internalMap,
                 defaultValue, name, deserializeKey, args, calls, yielded,
                 sameMap>>

\* A map is built from a list of entries (Init) and by set; filter and map
\* are called on it with callbacks that call set, deleteIfExists and clear
\* on it.
NextMutating ==
  \/ \E key \in Keys, value \in Values :
       traversal = NoTraversal /\ set(key, value)
  \/ \E op \in {"filter", "map"}, fn \in MutatingFns : begin(op, fn)
  \/ turn
  \/ end

SpecMutating == Init /\ [][NextMutating]_vars

(***************************************************************************)
(* C1.  Immediately after set(k, v), has(k) is true and get(k) returns v   *)
(* and does not throw, for every key k and every value v.                  *)
(***************************************************************************)
C1_SetThenGet ==
  [][last.op = "set" =>
       /\ Has(last.key)
       /\ Called("get", last.key) =>
            (last'.kind = "return" /\ last'.ret = last.arg)]_vars

(***************************************************************************)
(* C2.  get(k) on a HashMap whose storage has no entry for the transformed *)
(* key of k throws MissingKeyError with key = k and map = the HashMap, and *)
(* leaves the entries as they were.                                        *)
(***************************************************************************)
C2_GetAbsentThrows ==
  [][\A key \in Keys :
       (instance \in HashMaps /\ Called("get", key) /\ ~HasEntry(key)) =>
         /\ last'.kind = "throw"
         /\ last'.error = [key |-> key, map |-> instance]
         /\ Storage' = Storage]_vars

\* A get that threw on a map that holds other entries, with a key whose
\* transformed form differs from the key.
C2_Witness ==
  /\ instance \in HashMaps
  /\ last.op = "get" /\ last.kind = "throw"
  /\ ~HasEntry(last.key)
  /\ Len(Storage) > 0
  /\ instance = "Data/HashMap" => hash[last.key] # last.key

(***************************************************************************)
(* C3.  getOr(k, d) never throws, returns the value of k's entry whenever  *)
(* there is one, and returns d only when there is none.                    *)
(***************************************************************************)
C3_GetOrTotal ==
  [][\A key \in Keys :
       Called("getOr", key) =>
         /\ last'.kind = "return"
         /\ HasEntry(key) => last'.ret = ValueOf(key)
         /\ ~HasEntry(key) => last'.ret = last'.arg]_vars

(***************************************************************************)
(* C4.  DefaultMap (Data/Map): the first get(k) of an absent key returns   *)
(* the default computed for k and stores it, so that has(k) is true        *)
(* afterwards; a second get(k) returns the same value and does not invoke  *)
(* the default generator again.                                            *)
(***************************************************************************)
C4_MaterializeOnMiss ==
  [][/\ \A key \in Keys :
          (instance = "Data/Map/DefaultMap" /\ Called("get", key) /\ ~HasEntry(key)) =>
            /\ last'.kind = "return"
            /\ last'.ret = defaultValue.value[key]
            /\ Has(key)'
     /\ (instance = "Data/Map/DefaultMap" /\ last.op = "get" /\ last.invoked > 0) =>
          /\ Called("has", last.key) => last'.flag
          /\ Called("get", last.key) =>
               (last'.kind = "return" /\ last'.ret = last.ret /\ last'.invoked = 0)]_vars

(***************************************************************************)
(* C5.  DefaultMap.get is total: after any sequence of get, set, delete,   *)
(* deleteIfExists and clear, get(k) returns a value and never throws.      *)
(***************************************************************************)
C5_DefaultMapGetTotal ==
  (instance \in DefaultMaps /\ last.op = "get") =>
    (last.kind = "return" /\ last.ret \in Values)

(***************************************************************************)
(* C6.  DefaultMap.get (Data/Map) on a hit returns the stored value and    *)
(* does not invoke the default: after get(k) has stored a default and      *)
(* set(k, v) has then been called, get(k) returns v.                       *)
(***************************************************************************)
C6_GetAfterSet ==
  [][(instance = "Data/Map/DefaultMap" /\ last.op = "set" /\ last.afterDefault
        /\ Called("get", last.key)) =>
       (last'.kind = "return" /\ last'.ret = last.arg /\ last'.invoked = 0)]_vars

(***************************************************************************)
(* C7.  delete(k) on a key that has an entry returns and removes exactly   *)
(* that entry: has(k) is false afterwards and every other entry is still   *)
(* there with its value, in the same relative order.                       *)
(***************************************************************************)
C7_DeleteRemovesExactly ==
  [][\A key \in Keys :
       (Called("delete", key) /\ HasEntry(key)) =>
         /\ last'.kind = "return"
         /\ ~Has(key)'
         /\ Removed(Storage, Storage', key)]_vars

\* A delete that returned and left two entries behind, the stored key being
\* the transformed one.
C7_Witness ==
  /\ last.op = "delete" /\ last.kind = "return"
  /\ ~HasEntry(last.key)
  /\ Len(Storage) >= 2

(***************************************************************************)
(* C8.  delete(k) on a key with no entry, also on an empty map, throws     *)
(* MissingKeyError whose key is k and leaves the entries unchanged.        *)
(***************************************************************************)
C8_DeleteAbsentThrows ==
  [][\A key \in Keys :
       (Called("delete", key) /\ ~HasEntry(key)) =>
         /\ last'.kind = "throw"
         /\ last'.error.key = key
         /\ Storage' = Storage]_vars

\* A delete that threw on the empty map.
C8_Witness ==
  /\ last.op = "delete" /\ last.kind = "throw"
  /\ last.error.key = last.key
  /\ Storage = <<>>

(***************************************************************************)
(* C9.  deleteIfExists(k) never throws; it returns true and removes the    *)
(* entry of k exactly when has(k) was true before the call, and otherwise  *)
(* returns false and leaves the entries unchanged.                         *)
(***************************************************************************)
C9_DeleteIfExists ==
  [][\A key \in Keys :
       Called("deleteIfExists", key) =>
         /\ last'.kind = "return"
         /\ last'.flag = Has(key)
         /\ IF Has(key)
              THEN Removed(Storage, Storage', key) /\ ~Has(key)'
              ELSE Storage' = Storage]_vars

\* A deleteIfExists that returned true and left other entries behind.
C9_Witness ==
  /\ last.op = "deleteIfExists" /\ last.kind = "return" /\ last.flag
  /\ ~HasEntry(last.key)
  /\ Len(Storage) >= 1

(***************************************************************************)
(* C10.  Keys are identified by their transformed form: for two domain     *)
(* keys k1, k2 with the same transformed key, after set(k1, v) has(k2) is  *)
(* true and get(k2) returns v; set(k2, w) overwrites that entry and keeps  *)
(* the number of entries; delete(k2) removes it, so that has(k1) is false. *)
(***************************************************************************)
C10_SameTransformSameEntry ==
  [][\A k1, k2 \in Keys :
       (instance # "Data/DefaultMap" /\ k1 # k2 /\ TransformOf(k1) = TransformOf(k2)
          /\ last.op = "set" /\ last.key = k1) =>
         /\ Has(k2)
         /\ Called("get", k2) => (last'.kind = "return" /\ last'.ret = last.arg)
         /\ Called("set", k2) =>
              (Len(Storage') = Len(Storage) /\ ValueOf(k1)' = last'.arg)
         /\ Called("delete", k2) => (last'.kind = "return" /\ ~Has(k1)')]_vars

(***************************************************************************)
(* C11.  Iterating the HashMap built by fromCustomEntries(es, h), or by    *)
(* fromEntries(es) whose hash is the identity, yields the pairs of es with *)
(* h applied to the keys, in input order; entries of es with the same      *)
(* hashed key are one entry, at the place of the first of them and with    *)
(* the value of the last of them.                                          *)
(***************************************************************************)
C11_BulkRoundTrip ==
  (instance = "Data/HashMap" /\ last.op \in {"fromEntries", "fromCustomEntries"}) =>
    LET es == args.entries
        h(i) == hash[es[i][1]]
        firsts == { i \in 1..Len(es) : \A j \in 1..(i - 1) : h(j) # h(i) }
        lastOf(i) == CHOOSE j \in 1..Len(es) :
                       h(j) = h(i) /\ \A l \in (j + 1)..Len(es) : h(l) # h(i)
        it == HashMap_entries(_map)
    IN /\ last.op = "fromEntries" => \A key \in Keys : hash[key] = key
       /\ Len(it) = Cardinality(firsts)
       /\ \A i \in firsts :
            it[Cardinality({ j \in firsts : j <= i })] = <<h(i), es[lastOf(i)][2]>>

\* Built from three entries, the first and the last with different keys and
\* values but one hashed key, the second with another hashed key.
C11_Witness ==
  /\ instance = "Data/HashMap" /\ last.op = "fromCustomEntries"
  /\ Len(args.entries) = 3
  /\ args.entries[1][1] # args.entries[3][1]
  /\ args.entries[1][2] # args.entries[3][2]
  /\ hash[args.entries[1][1]] = hash[args.entries[3][1]]
  /\ hash[args.entries[2][1]] # hash[args.entries[1][1]]
  /\ _map = << <<hash[args.entries[1][1]], args.entries[3][2]>>,
               <<hash[args.entries[2][1]], args.entries[2][2]>> >>

(***************************************************************************)
(* C12.  filter, map, mapKeys and mapValues do not mutate the map they are *)
(* called on: with a callback that is a pure function of its arguments,    *)
(* [...original] is the same sequence before and after the call.           *)
(***************************************************************************)
C12_SourceUnchanged ==
  [][last'.op \in Derivations => (Spread' = Spread /\ Storage' = Storage)]_vars

\* A filter of a map of three entries that returned a map of one entry.
C12_Witness ==
  /\ last.op = "filter"
  /\ Len(Spread) = 3
  /\ Len(StorageOf(returned)) = 1

(***************************************************************************)
(* C13.  The map returned by filter(p) holds exactly the entries of the    *)
(* source for which p returned true, with their values and in the source's *)
(* iteration order; it has the source's hash function and name (for the    *)
(* serializing classes, the source's serializeKey and deserializeKey).     *)
(***************************************************************************)
C13_FilterResult ==
  last.op = "filter" =>
    /\ CalledPerEntry
    /\ SpreadOf(returned) = At(Spread, { i \in 1..Len(calls) : calls[i][4] })
    /\ returned.class = instance
    /\ IF instance = "Data/HashMap"
         THEN returned.hash = hash /\ returned.name = name
         ELSE /\ returned.serializeKey = serializeKey
              /\ returned.deserializeKey = deserializeKey

\* A named HashMap of three entries filtered by value: the second entry was
\* rejected, the first and the third make the returned map.
C13_Witness ==
  /\ instance = "Data/HashMap" /\ last.op = "filter" /\ args.fn = "byValue"
  /\ Len(_map) = 3
  /\ returned._map = <<_map[1], _map[3]>>
  /\ returned.name = "users"

C15_IndexIsPlace ==
  last.op = "filter" => \A i \in 1..Len(calls) : calls[i][3] = i - 1

(***************************************************************************)
(* C16.  map(fn) calls fn once per source entry, in iteration order, with  *)
(* index 0, 1, 2, ..., and returns a new map built from the returned       *)
(* [key, value] pairs in call order; when two returned pairs have the same *)
(* key the value of the later one replaces the earlier one, and no error   *)
(* is raised.                                                              *)
(***************************************************************************)
C16_MapResult ==
  last.op = "map" =>
    /\ last.kind = "return"
    /\ CalledPerEntry
    /\ \A i \in 1..Len(calls) : calls[i][3] = i - 1
    /\ returned.class = instance
    /\ StorageOf(returned) =
         Collapse([i \in 1..Len(calls) |->
                     <<StoredAs(calls[i][4][1]), calls[i][4][2]>>])

\* A map whose callback returned the same key for every entry, on a map
\* whose first and last values differ: one entry, with the last value.
C16_Witness ==
  /\ last.op = "map" /\ args.fn = "constKey"
  /\ Len(Spread) = 3
  /\ Spread[1][2] # Spread[3][2]
  /\ StorageOf(returned) = << <<StoredAs(1), Spread[3][2]>> >>

(***************************************************************************)
(* C17.  The map is iterable, and [...map] is the same sequence as         *)
(* [...map.entries()], one pair per stored entry in insertion order;       *)
(* keys() and values() yield the first and the second components of that   *)
(* sequence in the same order; every call of entries(), keys() or values() *)
(* yields a full traversal again.                                          *)
(***************************************************************************)
C17_Traversals ==
  [][/\ last'.op \in Traversals =>
          /\ last'.kind = "return"
          /\ Len(yielded') = Len(Storage)
          /\ Storage' = Storage
     /\ last'.op = "iterator" => yielded' = SpreadEntries
     /\ last'.op = "entries" =>
          /\ yielded' = Spread
          /\ \A i \in 1..Len(Storage) : yielded'[i][2] = Storage[i][2]
     /\ last'.op = "keys" => yielded' = [i \in 1..Len(Spread) |-> Spread[i][1]]
     /\ last'.op = "values" => yielded' = [i \in 1..Len(Spread) |-> Spread[i][2]]
     /\ (last.op \in Traversals /\ last'.op = last.op) => yielded' = yielded]_vars

\* values() of a map of three entries whose first and last values differ.
C17_Witness ==
  /\ instance = "Data/HashMap" /\ last.op = "values"
  /\ Len(_map) = 3
  /\ yielded = <<_map[1][2], _map[2][2], _map[3][2]>>
  /\ yielded[1] # yielded[3]

(***************************************************************************)
(* C18.  Iteration yields keys in their transformed form, not in the       *)
(* domain form, in insertion order: after set(k, v) the entry appears in   *)
(* entries() and keys() as the transformed key of k, for every class.      *)
(***************************************************************************)
C18_YieldsTransformed ==
  last.op = "set" =>
    LET i == MapIndex(Storage, TransformOf(last.key)) IN
      /\ HasEntry(last.key)
      /\ SameValue(SpreadKeys[i], TransformOf(last.key))
      /\ SameValue(SpreadEntries[i][1], TransformOf(last.key))
      /\ SpreadEntries[i][2] = last.arg

(***************************************************************************)
(* C18, amended.  After set(k, v) the entry appears in entries() and       *)
(* keys(), at its place in the insertion order, under the hashed key       *)
(* hash(k) for Data/HashMap, and under deserializeKey(serializeKey(k)) for *)
(* the Data/Map classes, whose stored key is the string serializeKey(k).   *)
(***************************************************************************)
C18_YieldsHashedOrDeserialized ==
  last.op = "set" =>
    LET i == MapIndex(Storage, TransformOf(last.key))
        y == IF instance = "Data/HashMap"
               THEN hash[last.key]
               ELSE deserializeKey[serializeKey[last.key]]
    IN /\ HasEntry(last.key)
       /\ SameValue(SpreadKeys[i], y)
       /\ SameValue(SpreadEntries[i][1], y)
       /\ SpreadEntries[i][2] = last.arg

\* After a set on a Data/Map HashMap with the day serializer, of a key that
\* is not the first instant of its day: the entry is the second of the map.
C18_Witness ==
  /\ instance = "Data/Map/HashMap" /\ last.op = "set"
  /\ deserializeKey[serializeKey[last.key]] # last.key
  /\ Len(internalMap) = 2
  /\ SpreadKeys[2] = deserializeKey[serializeKey[last.key]]

(***************************************************************************)
(* C19.  DefaultMap hands set, delete, deleteIfExists, has and clear to    *)
(* the HashMap it owns: every such call completes as the same call on a    *)
(* plain HashMap with the same entries does, and leaves the same entries;  *)
(* delete(k) of an absent key throws MissingKeyError and stores no         *)
(* default.                                                                *)
(***************************************************************************)
C19_DefaultMapDelegates ==
  [][/\ \A key \in Keys :
          (instance = "Data/Map/DefaultMap" /\ last'.key = key
             /\ last'.op \in {"set", "delete", "deleteIfExists", "has"}) =>
            (LET plain ==
                   CASE last'.op = "set" ->
                          Map_HashMap_set(internalMap, key, last'.arg)
                     [] last'.op = "delete" ->
                          Map_HashMap_delete(InternalMapOf(instance), internalMap, key)
                     [] last'.op = "deleteIfExists" ->
                          Map_HashMap_deleteIfExists(InternalMapOf(instance),
                                                     internalMap, key)
                     [] last'.op = "has" ->
                          Return(internalMap, undefined,
                                 Map_HashMap_has(internalMap, key), 0)
             IN /\ internalMap' = plain.map
                /\ last'.kind = plain.kind
                /\ last'.flag = plain.flag
                /\ last'.error = plain.error
                /\ last'.invoked = 0
                /\ (last'.op = "delete" /\ ~HasEntry(key)) =>
                     (/\ last'.kind = "throw"
                      /\ last'.error.key = key
                      /\ internalMap' = internalMap))
     /\ (instance = "Data/Map/DefaultMap" /\ last'.op = "clear") =>
          (/\ internalMap' = Map_HashMap_clear(internalMap).map
           /\ last'.kind = "return"
           /\ last'.invoked = 0)]_vars

\* A delete on a DefaultMap that threw for a key without an entry, the map
\* holding another entry and no default for the key.
C19_Witness ==
  /\ instance = "Data/Map/DefaultMap"
  /\ last.op = "delete" /\ last.kind = "throw"
  /\ last.error = MissingKeyError(InternalMapOf(instance), last.key)
  /\ Len(internalMap) = 1
  /\ ~HasEntry(last.key)

(***************************************************************************)
(* C20.  After clear(), on any map state, iteration yields no entries and  *)
(* has(k) is false for every key k; the map can still be used: a set(k, v) *)
(* that follows yields exactly the one entry for k.                        *)
(***************************************************************************)
C20_ClearThenSet ==
  [][/\ last'.op = "clear" =>
          (/\ last'.kind = "return"
           /\ Spread' = <<>>
           /\ SpreadKeys' = <<>>
           /\ \A key \in Keys : ~Has(key)')
     /\ (last.op = "clear" /\ last'.op = "set") =>
          (/\ last'.kind = "return"
           /\ Storage' = << <<TransformOf(last'.key), last'.arg>> >>
           /\ Len(Spread') = 1
           /\ Spread'[1][2] = last'.arg
           /\ \A key \in Keys :
                Has(key)' <=> TransformOf(key) = TransformOf(last'.key))]_vars

\* A clear of a Data/HashMap with the day hash has returned: the map
\* iterates as empty and has no key.
C20_Witness ==
  /\ instance = "Data/HashMap" /\ last.op = "clear" /\ last.kind = "return"
  /\ hash[2] = 1
  /\ Spread = <<>>
  /\ \A key \in Keys : ~Has(key)

(***************************************************************************)
(* C21.  set(k, v) always succeeds and changes only the entry for the      *)
(* transformed key of k: without such an entry the new entry is appended   *)
(* after all others; with one, its value is replaced, its place and the    *)
(* number of entries stay; every other entry keeps its key, its value and  *)
(* its place among the others.                                             *)
(***************************************************************************)
C21_SetFrame ==
  [][\A key \in Keys :
       Called("set", key) =>
         (/\ last'.kind = "return"
          /\ \A i \in 1..Len(Storage) :
               Storage'[i] = IF Storage[i][1] = TransformOf(key)
                               THEN <<TransformOf(key), last'.arg>>
                               ELSE Storage[i]
          /\ IF HasEntry(key)
               THEN Len(Storage') = Len(Storage)
               ELSE Storage' = Append(Storage, <<TransformOf(key), last'.arg>>))]_vars

\* A set has returned and its entry is the first of three: the entry was
\* there before and kept its place.
C21_Witness ==
  /\ last.op = "set" /\ last.kind = "return"
  /\ Len(Storage) = 3
  /\ Storage[1] = <<TransformOf(last.key), last.arg>>

(***************************************************************************)
(* C22.  mapValues(f) returns a map with the keys of the source in the     *)
(* same order, each value replaced by f(value, key, index, original);      *)
(* mapKeys(f) returns a map of the source's values in source order, each   *)
(* under the key f(key, value, index, original), a later entry replacing   *)
(* the value of an earlier one when f gives them the same key.  The index  *)
(* is the place of the entry, from 0.                                      *)
(***************************************************************************)
C22_MapKeysMapValues ==
  /\ last.op = "mapValues" =>
       /\ returned.class = instance
       /\ SpreadOf(returned) =
            [i \in 1..Len(Spread) |->
               <<Spread[i][1],
                 ValueFor(args.fn, Spread[i][2], Spread[i][1], i - 1)>>]
  /\ last.op = "mapKeys" =>
       /\ returned.class = instance
       /\ StorageOf(returned) =
            Collapse([i \in 1..Len(Spread) |->
                        <<StoredAs(KeyOf(args.fn, Spread[i][1], Spread[i][2], i - 1)),
                          Spread[i][2]>>])

\* mapKeys with a callback that gives the first two of three entries one
\* key: two entries come back, the first with the value of the second
\* source entry.
C22_Witness ==
  /\ last.op = "mapKeys" /\ args.fn = "dayOf"
  /\ Len(Spread) = 3
  /\ Spread[1][2] # Spread[2][2]
  /\ Len(StorageOf(returned)) = 2
  /\ StorageOf(returned)[1][2] = Spread[2][2]
  /\ StorageOf(returned)[2][2] = Spread[3][2]

(***************************************************************************)
(* C24.  In every reachable state of a HashMap and for every key k,        *)
(* has(k), get(k) and getOr agree on presence: get(k) throws               *)
(* MissingKeyError if and only if has(k) is false, and getOr(k, d) returns *)
(* the fallback d when has(k) is false and the value of the entry, not the *)
(* fallback, when has(k) is true.                                          *)
(***************************************************************************)
C24_PresenceAgrees ==
  [][\A key \in Keys :
       /\ (instance \in HashMaps /\ Called("get", key)) =>
            (last'.kind = "throw" <=> ~Has(key))
       /\ (instance \in HashMaps /\ Called("getOr", key)) =>
            (/\ last'.kind = "return"
             /\ last'.ret = IF Has(key) THEN ValueOf(key) ELSE last'.arg)]_vars

(***************************************************************************)
(* C25.  On a DefaultMap only get stores defaults: for every key k without *)
(* an entry, has(k), getOr(k, d), deleteIfExists(k) and the traversals     *)
(* return, leave the entries unchanged and do not invoke the default       *)
(* generator, so that has(k) is false afterwards as well.                  *)
(***************************************************************************)
C25_OnlyGetMaterializes ==
  [][\A key \in Keys :
       (/\ instance = "Data/Map/DefaultMap"
        /\ ~HasEntry(key)
        /\ \/ last'.op \in {"has", "getOr", "deleteIfExists"} /\ last'.key = key
           \/ last'.op \in Traversals) =>
         (/\ last'.kind = "return"
          /\ last'.invoked = 0
          /\ internalMap' = internalMap
          /\ ~Has(key)')]_vars

\* A getOr on a DefaultMap has returned its fallback for a key without an
\* entry; the map holds an entry for another key and none for this one.
C25_Witness ==
  /\ instance = "Data/Map/DefaultMap"
  /\ last.op = "getOr" /\ last.kind = "return" /\ last.ret = last.arg
  /\ last.invoked = 0
  /\ Len(internalMap) = 1
  /\ ~HasEntry(last.key)


(***************************************************************************)
(* C27.  On the serializing HashMap every stored key is serializeKey(k) of *)
(* a key k; keys() and entries() yield deserializeKey of each stored key   *)
(* and serializedKeys() yields the stored keys themselves, all in the      *)
(* order of the storage, which is insertion order; and where serializeKey  *)
(* takes deserializeKey of every stored key back to that stored key, the   *)
(* map returned by filter with an always-true predicate has the storage of *)
(* the source: the same serialized keys and values in the same order.      *)
(***************************************************************************)
C27_SerializedKeys ==
  instance = "Data/Map/HashMap" =>
    /\ \A i \in 1..Len(internalMap) :
         \E k \in Keys : internalMap[i][1] = serializeKey[k]
    /\ last.op = "keys" =>
         yielded = [i \in 1..Len(internalMap) |->
                      deserializeKey[internalMap[i][1]]]
    /\ last.op = "entries" =>
         yielded = [i \in 1..Len(internalMap) |->
                      <<deserializeKey[internalMap[i][1]], internalMap[i][2]>>]
    /\ last.op = "serializedKeys" =>
         yielded = [i \in 1..Len(internalMap) |-> internalMap[i][1]]
    /\ (/\ last.op = "filter" /\ args.fn = "always"
        /\ \A i \in 1..Len(internalMap) :
             serializeKey[deserializeKey[internalMap[i][1]]] = internalMap[i][1]) =>
         (returned.class = instance /\ returned.internalMap = internalMap)

\* serializedKeys() has yielded two stored keys of which the first is the
\* serialized form of a key that deserializeKey does not give back.
C27_Witness ==
  /\ instance = "Data/Map/HashMap"
  /\ last.op = "serializedKeys" /\ Len(yielded) = 2
  /\ yielded[1] # yielded[2]
  /\ \E k \in Keys :
       yielded[1] = serializeKey[k] /\ deserializeKey[serializeKey[k]] # k

(***************************************************************************)
(* C23.  A map that filter, map, mapKeys or mapValues returned and its     *)
(* source are independent: a set, delete or clear on the returned map      *)
(* leaves the entries of the source as they were, and a set, delete or     *)
(* clear on the source leaves the entries of the returned map as they      *)
(* were.                                                                   *)
(***************************************************************************)
C23_Independent ==
  [][last.op \in Derivations =>
       /\ last'.op \in {"returned.set", "returned.delete", "returned.clear"} =>
            Storage' = Storage
       /\ (last'.op \in {"set", "delete", "clear"} /\ returned' # NoObject) =>
            returned' = returned]_vars

\* A set on the map that a derivation returned gave that map a second
\* entry, for a key that has no entry in the source.
C23_Witness ==
  /\ last.op = "returned.set" /\ last.kind = "return"
  /\ Len(StorageOf(returned)) = 2
  /\ StorageOf(returned)[2] = <<TransformOf(last.key), last.arg>>
  /\ ~HasEntry(last.key) /\ Len(Storage) = 2

(***************************************************************************)
(* C26.  filter and map end, and they call the callback exactly once for   *)
(* each entry the map holds when the call starts, in insertion order, also *)
(* when the callback calls set, delete or clear on the map: while the loop *)
(* runs the callback has been called for the first entries of that list,   *)
(* once each and in order, and when the loop ends it has been called for   *)
(* all of them.                                                            *)
(***************************************************************************)
C26_OncePerEntry ==
  [][traversal'.op # "none" \/ traversal.op # "none" =>
       LET start == IF traversal.op # "none"
                      THEN traversal.start ELSE traversal'.start
       IN /\ Len(calls') <= Len(start)
          /\ \A i \in 1..Len(calls') :
               /\ calls'[i][1] = start[i][2]
               /\ calls'[i][2] = IF instance \in Hashed
                                   THEN start[i][1]
                                   ELSE deserializeKey[start[i][1]]
          /\ traversal'.op = "none" => Len(calls') = Len(start)]_vars
====
